---- MODULE Spec2Model ----
(***************************************************************************)
(* Model of JSScraper (src/js_scraper.js): the content stabilization       *)
(* driver advancedAutoScroll, the network response correlator              *)
(* waitForNetworkResponse, the form automaton handleForm and               *)
(* handleDynamicFormFields, each run against a page whose document changes  *)
(* asynchronously and whose calls may fail.                                 *)
(***************************************************************************)
EXTENDS Integers, Sequences, FiniteSets, TLC

\* ---------------------------------------------------------------- bounds
MaxScrollsBound == 2
MaxRetriesBound == 2
MaxHeight == 1
MaxNodes == 1
NumCalls == 2
MaxEvents == 3
MaxFields == 3
MaxValidatorErrors == 2
MaxDynFields == 4
MaxErrorElements == 2

\* ------------------------------------------------------------- variables
VARIABLES
    page,           \* the live document: height, nodeCount, selector, callback
    pc,             \* position of the advancedAutoScroll call
    maxScrolls, maxRetries, untilSelector, untilCallback,   \* options
    scrollCount, retries, lastHeight, lastNodeCount, stoppedBy, newHeight,
    threw,          \* the page call of the last step threw
    anyThrow,       \* some page call of this run threw
    selAlways,      \* untilSelector's element was in the document at every step so far
    obsHeight, obsNodeCount,  \* the signal captured most recently
    streak,         \* consecutive steps whose captured signal equalled the previous one
    productive,     \* steps whose captured signal differed from the previous one
    baselineAt,     \* where lastHeight/lastNodeCount were captured: before_loop or step_end
    started,        \* waitForNetworkResponse call c has been made
    urlMatch,       \* its matcher
    listeners,      \* calls whose onResponse is registered for 'response'
    timers,         \* calls whose timer is armed
    reading,        \* per call, the responses whose text() is pending
    result,         \* per call, the value its promise settled to
    emitted,        \* response events emitted so far
    lastUrl,        \* url of the response emitted last
    resolves,       \* per call, calls of resolve
    removals,       \* per call, calls of removeListener
    timerEnds,      \* per call, times the timer was cleared or fired
    delivered,      \* per call, invocations of onResponse
    firstMatch,     \* per call, the first matching response it was handed
    timerFired,     \* per call, the timer callback ran
    readFailed,     \* per call, response.text() threw
    fpc,            \* position of the handleForm call
    fields,         \* Object.entries(fields): per field, whether its value is truthy
    submit, validate,   \* options: submit requested, validator supplied
    errors, success,    \* the error list and the returned success flag
    idx,            \* the field the loop is at
    type,           \* el.type of the current field's element
    tag,            \* tagName of the element dispatched on last
    located,        \* what the wait for the form gave: unasked, found or timeout
    seen,           \* per field processed, what page.$ gave: found, null or threw
    acted,          \* the fill dispatches made, in order: <<field, action>>
    validations,    \* runs of the custom validator
    validSaid,      \* what the validator reported: none, valid or invalid
    gate,           \* the error list when line 881 was reached: unreached, clean, dirty
    formFound,      \* what the form lookup before submit gave
    submits,        \* calls of form.submit()
    navigated,      \* the navigation wait completed without error
    navWait,        \* how the navigation wait ended: none, done or timeout
    fThrew,         \* some page call of this handleForm call threw
    failed,         \* the fields whose resolving, classifying or filling threw
    dpc,            \* position of the handleDynamicFormFields call
    matching,       \* the elements matching fieldSelector now in the document
    dynResult,      \* the array the call returned
    dynCalls,       \* the page calls it made, in order
    dynFailed,      \* the page call of it that threw, or none
    vpc,            \* position of the validateForm call
    formExists,     \* document.querySelector(formSelector) found a form
    reported,       \* form.reportValidity() was called
    errorElements,  \* textContent of the elements matching errorSelector now
    valid, vErrors, \* the returned valid flag and errors list
    vCalls,         \* the page calls validateForm made, in order
    vFailed,        \* the page call of it that threw, or none
    ipc,            \* position of the handleInfiniteScroll call
    iMaxScrolls, loadMoreSelector,  \* its options
    iScrollCount, previousHeight,   \* its locals
    clicks,         \* clicks on the load-more button in this run
    swallowed       \* a failure inside the load-more try block was swallowed

optVars == <<maxScrolls, maxRetries, untilSelector, untilCallback>>
locVars == <<scrollCount, retries, lastHeight, lastNodeCount, stoppedBy, newHeight>>
obsVars == <<obsHeight, obsNodeCount, streak, productive>>
stepVars == <<baselineAt>>
scrollVars == <<pc, optVars, locVars, threw, anyThrow, selAlways, obsVars, stepVars>>
netVars == <<started, urlMatch, listeners, timers, reading, result, emitted, lastUrl,
             resolves, removals, timerEnds, delivered, firstMatch, timerFired,
             readFailed>>
formVars == <<fpc, fields, submit, validate, errors, success, idx, type, tag, located,
              seen,
              acted, validations, validSaid, gate, formFound, submits, navigated,
              navWait,
              fThrew, failed>>
dynVars == <<dpc, matching, dynResult, dynCalls, dynFailed>>
valVars == <<vpc, formExists, reported, errorElements, valid, vErrors, vCalls, vFailed>>
infVars == <<ipc, iMaxScrolls, loadMoreSelector, iScrollCount, previousHeight, clicks,
             swallowed>>
vars == <<page, scrollVars, netVars, formVars, dynVars, valVars, infVars>>

\* The documents the page can show.
Pages == [height : 0..MaxHeight, nodeCount : 0..MaxNodes,
          selector : BOOLEAN, callback : BOOLEAN]

\* The page before any document is loaded.
BlankPage == [height |-> 0, nodeCount |-> 0, selector |-> FALSE, callback |-> FALSE]

\* Positions inside the while loop of advancedAutoScroll.
TryPcs == {"sel", "cb", "scroll", "wait", "new_h", "new_n", "backoff"}
LoopPcs == TryPcs \cup {"loop", "catch_wait"}

Reasons == {"maxScrolls", "untilSelector", "untilCallback", "maxRetries", "error"}

\* The waitForNetworkResponse calls, the URLs of responses, and the matchers:
\* a substring, or a regular expression given by the URLs it accepts.
Calls == 1..NumCalls
Urls == {<<"a">>, <<"b">>, <<"a", "b">>}
Matchers == [kind : {"string"}, pattern : {<<"a">>, <<"b">>}]
            \cup [kind : {"regexp"}, accepts : {{<<"b">>}}]
NoMatcher == [kind |-> "string", pattern |-> <<>>]

\* What the promise of a call holds: nothing yet, undefined, or the text of
\* the e-th response.
Pending == <<>>
Undefined == <<"undefined">>
Text(e) == <<"text", e>>

\* handleForm: the kinds an element can report, and the entries of the error list.
ElTypes == {"text", "checkbox", "radio", "file"}
TagNames == {"input", "select"}
NotFound(i) == <<"Field not found", i>>
FillError(i) == <<"Error filling", i>>
ValidatorError(k) == <<"validator", k>>
FormError == <<"Form handling error">>
FieldLists == UNION {[1..n -> BOOLEAN] : n \in 0..MaxFields}

\* validateForm: the text an error element can hold (characters, a blank
\* being " "), the lists of error elements a document can show, and the one
\* entry the catch block returns.
RawTexts == {<<>>, <<" ">>, <<"x">>, <<" ", "x", " ">>}
ErrorElementLists == UNION {[1..n -> RawTexts] : n \in 0..MaxErrorElements}
ErrorMessage == <<"error.message">>

\* handleDynamicFormFields: the elements that can match fieldSelector.
DynElements == 1..MaxDynFields

\* ------------------------------------------------------------------ Init
Init ==
    /\ page = BlankPage
    /\ pc = "idle"
    /\ maxScrolls = 0 /\ maxRetries = 0
    /\ untilSelector = FALSE /\ untilCallback = FALSE
    /\ scrollCount = 0 /\ retries = 0
    /\ lastHeight = 0 /\ lastNodeCount = 0 /\ newHeight = 0
    /\ stoppedBy = "unset"
    /\ threw = FALSE /\ anyThrow = FALSE /\ selAlways = TRUE
    /\ obsHeight = 0 /\ obsNodeCount = 0 /\ streak = 0 /\ productive = 0
    /\ baselineAt = "unset"
    /\ started = [c \in Calls |-> FALSE]
    /\ urlMatch = [c \in Calls |-> NoMatcher]
    /\ listeners = {} /\ timers = {}
    /\ reading = [c \in Calls |-> {}]
    /\ result = [c \in Calls |-> Pending]
    /\ emitted = 0
    /\ lastUrl = <<>>
    /\ resolves = [c \in Calls |-> 0]
    /\ removals = [c \in Calls |-> 0]
    /\ timerEnds = [c \in Calls |-> 0]
    /\ delivered = [c \in Calls |-> 0]
    /\ firstMatch = [c \in Calls |-> 0]
    /\ timerFired = [c \in Calls |-> FALSE]
    /\ readFailed = [c \in Calls |-> FALSE]
    /\ fpc = "idle"
    /\ fields = <<>> /\ submit = FALSE /\ validate = FALSE
    /\ errors = <<>> /\ success = "unset"
    /\ idx = 0 /\ type = "none" /\ tag = "none"
    /\ located = "unasked" /\ seen = <<>> /\ acted = <<>>
    /\ validations = 0 /\ validSaid = "none"
    /\ gate = "unreached" /\ formFound = "unasked"
    /\ submits = 0 /\ navigated = FALSE /\ fThrew = FALSE
    /\ navWait = "none"
    /\ failed = {}
    /\ dpc = "idle"
    /\ matching = {} /\ dynResult = {}
    /\ dynCalls = <<>> /\ dynFailed = "none"
    /\ vpc = "idle" /\ formExists = FALSE /\ reported = FALSE
    /\ errorElements = <<>>
    /\ valid = "unset" /\ vErrors = <<>>
    /\ vCalls = <<>> /\ vFailed = "none"
    /\ ipc = "idle" /\ iMaxScrolls = 0 /\ loadMoreSelector = FALSE
    /\ iScrollCount = 0 /\ previousHeight = 0
    /\ clicks = 0 /\ swallowed = FALSE

\* --------------------------------------------------- advancedAutoScroll
\* The document as the next page call finds it: content may have loaded or
\* gone since the previous call.
Observe(p) ==
    /\ p \in Pages
    /\ page' = p
    /\ selAlways' = (selAlways /\ p.selector)

Returned == threw' = FALSE /\ UNCHANGED anyThrow
Thrown == threw' = TRUE /\ anyThrow' = TRUE

\* Catch that goes straight back to the loop test, without the doubled wait.
Catch_NoWait ==
    /\ retries' = retries + 1
    /\ IF retries + 1 >= maxRetries
         THEN stoppedBy' = "error" /\ pc' = "done"
         ELSE stoppedBy' = stoppedBy /\ pc' = "loop"
    /\ newHeight' = 0
    /\ UNCHANGED <<scrollCount, lastHeight, lastNodeCount>>
    /\ UNCHANGED <<optVars, obsVars, stepVars>>
    /\ Thrown

\* Catch that reports the stagnation ceiling for a step that threw.
Catch_WrongReason ==
    /\ retries' = retries + 1
    /\ IF retries + 1 >= maxRetries
         THEN stoppedBy' = "maxRetries" /\ pc' = "done"
         ELSE stoppedBy' = stoppedBy /\ pc' = "catch_wait"
    /\ newHeight' = 0
    /\ UNCHANGED <<scrollCount, lastHeight, lastNodeCount>>
    /\ UNCHANGED <<optVars, obsVars, stepVars>>
    /\ Thrown

\* Catch with the retry ceiling tested by > instead of >=.
Catch_LateCeiling ==
    /\ retries' = retries + 1
    /\ IF retries + 1 > maxRetries
         THEN stoppedBy' = "error" /\ pc' = "done"
         ELSE stoppedBy' = stoppedBy /\ pc' = "catch_wait"
    /\ newHeight' = 0
    /\ UNCHANGED <<scrollCount, lastHeight, lastNodeCount>>
    /\ UNCHANGED <<optVars, obsVars, stepVars>>
    /\ Thrown

\* catch (error) { retries++; if (retries >= maxRetries) {...break} ... }
\* (newHeight, a const of the try block, is out of scope from here on)
Catch ==
    /\ retries' = retries + 1
    /\ IF retries + 1 >= maxRetries
         THEN stoppedBy' = "error" /\ pc' = "done"
         ELSE stoppedBy' = stoppedBy /\ pc' = "catch_wait"
    /\ newHeight' = 0
    /\ UNCHANGED <<scrollCount, lastHeight, lastNodeCount>>
    /\ UNCHANGED <<optVars, obsVars, stepVars>>
    /\ Thrown

\* Where the try block goes after the selector check found nothing.
AfterSelector == IF untilCallback THEN "cb" ELSE "scroll"

\* advancedAutoScroll(options): destructure the options, zero the counters;
\* the page shows whatever document the session has loaded by then.
Invoke ==
    /\ pc = "idle"
    /\ UNCHANGED <<netVars, formVars, dynVars, valVars, infVars>>
    /\ \E ms \in 0..MaxScrollsBound, mr \in 0..MaxRetriesBound,
          us \in BOOLEAN, uc \in BOOLEAN :
         /\ maxScrolls' = ms /\ maxRetries' = mr
         /\ untilSelector' = us /\ untilCallback' = uc
    /\ scrollCount' = 0 /\ retries' = 0
    /\ pc' = "baseline_h"
    /\ \E p \in Pages : page' = p /\ selAlways' = p.selector
    /\ UNCHANGED <<lastHeight, lastNodeCount, stoppedBy, newHeight,
                   threw, anyThrow, obsVars, stepVars>>

\* let lastHeight = await this.page.evaluate('document.body.scrollHeight')
BaselineHeight ==
    /\ pc = "baseline_h"
    /\ UNCHANGED <<netVars, formVars, dynVars, valVars, infVars>>
    /\ \E p \in Pages : Observe(p)
    /\ \/ /\ lastHeight' = page'.height
          /\ obsHeight' = page'.height
          /\ pc' = "baseline_n"
          /\ Returned
       \/ /\ pc' = "rejected"
          /\ UNCHANGED <<lastHeight, obsHeight>>
          /\ Thrown
    /\ UNCHANGED <<optVars, scrollCount, retries, lastNodeCount, stoppedBy,
                   newHeight, obsNodeCount, streak, productive, stepVars>>

\* let lastNodeCount = await this.page.evaluate(...length); let stoppedBy = 'maxScrolls'
BaselineNodeCount ==
    /\ pc = "baseline_n"
    /\ UNCHANGED <<netVars, formVars, dynVars, valVars, infVars>>
    /\ \E p \in Pages : Observe(p)
    /\ \/ /\ lastNodeCount' = page'.nodeCount
          /\ obsNodeCount' = page'.nodeCount
          /\ stoppedBy' = "maxScrolls"
          /\ baselineAt' = "before_loop"
          /\ pc' = "loop"
          /\ Returned
       \/ /\ pc' = "rejected"
          /\ UNCHANGED <<lastNodeCount, obsNodeCount, stoppedBy, baselineAt>>
          /\ Thrown
    /\ UNCHANGED <<optVars, scrollCount, retries, lastHeight, newHeight,
                   obsHeight, streak, productive>>

\* LoopTest with the loop guard off by one: scrollCount <= maxScrolls.
LoopTest_OffByOne ==
    /\ pc = "loop"
    /\ UNCHANGED <<netVars, formVars, dynVars, valVars, infVars>>
    /\ pc' = IF scrollCount <= maxScrolls
               THEN (IF untilSelector THEN "sel" ELSE AfterSelector)
               ELSE "done"
    /\ UNCHANGED <<page, optVars, locVars, threw, anyThrow, selAlways, obsVars,
                   stepVars>>

\* while (scrollCount < maxScrolls) { try { if (untilSelector) ... if (untilCallback) ...
LoopTest ==
    /\ pc = "loop"
    /\ UNCHANGED <<netVars, formVars, dynVars, valVars, infVars>>
    /\ pc' = IF scrollCount < maxScrolls
               THEN (IF untilSelector THEN "sel" ELSE AfterSelector)
               ELSE "done"
    /\ UNCHANGED <<page, optVars, locVars, threw, anyThrow, selAlways, obsVars,
                   stepVars>>

\* CheckSelector that records the reason but does not leave the loop.
CheckSelector_Continue ==
    /\ pc = "sel"
    /\ UNCHANGED <<netVars, formVars, dynVars, valVars, infVars>>
    /\ \E p \in Pages : Observe(p)
    /\ \/ /\ IF page'.selector
               THEN stoppedBy' = "untilSelector" /\ pc' = AfterSelector
               ELSE stoppedBy' = stoppedBy /\ pc' = AfterSelector
          /\ UNCHANGED <<scrollCount, retries, lastHeight, lastNodeCount, newHeight>>
          /\ UNCHANGED <<optVars, obsVars, stepVars>>
          /\ Returned
       \/ Catch

\* const found = await this.page.$(untilSelector); if (found) {...break}
CheckSelector ==
    /\ pc = "sel"
    /\ UNCHANGED <<netVars, formVars, dynVars, valVars, infVars>>
    /\ \E p \in Pages : Observe(p)
    /\ \/ /\ IF page'.selector
               THEN stoppedBy' = "untilSelector" /\ pc' = "done"
               ELSE stoppedBy' = stoppedBy /\ pc' = AfterSelector
          /\ UNCHANGED <<scrollCount, retries, lastHeight, lastNodeCount, newHeight>>
          /\ UNCHANGED <<optVars, obsVars, stepVars>>
          /\ Returned
       \/ Catch

\* const shouldStop = await this.page.evaluate(untilCallback); if (shouldStop) {...break}
CheckCallback ==
    /\ pc = "cb"
    /\ UNCHANGED <<netVars, formVars, dynVars, valVars, infVars>>
    /\ \E p \in Pages : Observe(p)
    /\ \/ /\ IF page'.callback
               THEN stoppedBy' = "untilCallback" /\ pc' = "done"
               ELSE stoppedBy' = stoppedBy /\ pc' = "scroll"
          /\ UNCHANGED <<scrollCount, retries, lastHeight, lastNodeCount, newHeight>>
          /\ UNCHANGED <<optVars, obsVars, stepVars>>
          /\ Returned
       \/ Catch

\* A page call of the try block that only has to return: go on to `next`.
PlainCall(at, next) ==
    /\ pc = at
    /\ UNCHANGED <<netVars, formVars, dynVars, valVars, infVars>>
    /\ \E p \in Pages : Observe(p)
    /\ \/ /\ pc' = next
          /\ UNCHANGED <<locVars, optVars, obsVars, stepVars>>
          /\ Returned
       \/ Catch

\* await this.page.evaluate('window.scrollTo(0, document.body.scrollHeight)')
ScrollToBottom == PlainCall("scroll", "wait")

\* await this.page.waitForTimeout(delay)
WaitDelay == PlainCall("wait", "new_h")

\* const newHeight = await this.page.evaluate('document.body.scrollHeight')
CaptureHeight ==
    /\ pc = "new_h"
    /\ UNCHANGED <<netVars, formVars, dynVars, valVars, infVars>>
    /\ \E p \in Pages : Observe(p)
    /\ \/ /\ newHeight' = page'.height
          /\ pc' = "new_n"
          /\ UNCHANGED <<scrollCount, retries, lastHeight, lastNodeCount, stoppedBy>>
          /\ UNCHANGED <<optVars, obsVars, stepVars>>
          /\ Returned
       \/ Catch

\* The signal just captured against the one captured before it.
Observed(h, n) ==
    /\ IF h = obsHeight /\ n = obsNodeCount
         THEN streak' = streak + 1 /\ UNCHANGED productive
         ELSE streak' = 0 /\ productive' = productive + 1
    /\ obsHeight' = h
    /\ obsNodeCount' = n

\* Compare that takes a step as productive only when both signals changed.
Compare_BothChanged(newNodeCount) ==
    IF newHeight = lastHeight \/ newNodeCount = lastNodeCount
      THEN /\ retries' = retries + 1
           /\ IF retries + 1 >= maxRetries
                THEN stoppedBy' = "maxRetries" /\ pc' = "done"
                ELSE stoppedBy' = stoppedBy /\ pc' = "backoff"
           /\ UNCHANGED <<scrollCount, lastHeight, lastNodeCount, baselineAt>>
      ELSE /\ lastHeight' = newHeight
           /\ lastNodeCount' = newNodeCount
           /\ baselineAt' = "step_end"
           /\ scrollCount' = scrollCount + 1
           /\ retries' = 0
           /\ pc' = "loop"
           /\ UNCHANGED stoppedBy

\* Compare that leaves the retry counter as it is on a productive step.
Compare_NoReset(newNodeCount) ==
    IF newHeight = lastHeight /\ newNodeCount = lastNodeCount
      THEN /\ retries' = retries + 1
           /\ IF retries + 1 >= maxRetries
                THEN stoppedBy' = "maxRetries" /\ pc' = "done"
                ELSE stoppedBy' = stoppedBy /\ pc' = "backoff"
           /\ UNCHANGED <<scrollCount, lastHeight, lastNodeCount, baselineAt>>
      ELSE /\ lastHeight' = newHeight
           /\ lastNodeCount' = newNodeCount
           /\ baselineAt' = "step_end"
           /\ scrollCount' = scrollCount + 1
           /\ retries' = retries
           /\ pc' = "loop"
           /\ UNCHANGED stoppedBy

\* Compare with the retry ceiling tested by > instead of >=.
Compare_LateCeiling(newNodeCount) ==
    IF newHeight = lastHeight /\ newNodeCount = lastNodeCount
      THEN /\ retries' = retries + 1
           /\ IF retries + 1 > maxRetries
                THEN stoppedBy' = "maxRetries" /\ pc' = "done"
                ELSE stoppedBy' = stoppedBy /\ pc' = "backoff"
           /\ UNCHANGED <<scrollCount, lastHeight, lastNodeCount, baselineAt>>
      ELSE /\ lastHeight' = newHeight
           /\ lastNodeCount' = newNodeCount
           /\ baselineAt' = "step_end"
           /\ scrollCount' = scrollCount + 1
           /\ retries' = 0
           /\ pc' = "loop"
           /\ UNCHANGED stoppedBy

\* if (newHeight === lastHeight && newNodeCount === lastNodeCount) {...} else {...}
Compare(newNodeCount) ==
    IF newHeight = lastHeight /\ newNodeCount = lastNodeCount
      THEN /\ retries' = retries + 1
           /\ IF retries + 1 >= maxRetries
                THEN stoppedBy' = "maxRetries" /\ pc' = "done"
                ELSE stoppedBy' = stoppedBy /\ pc' = "backoff"
           /\ UNCHANGED <<scrollCount, lastHeight, lastNodeCount, baselineAt>>
      ELSE /\ lastHeight' = newHeight
           /\ lastNodeCount' = newNodeCount
           /\ baselineAt' = "step_end"
           /\ scrollCount' = scrollCount + 1
           /\ retries' = 0
           /\ pc' = "loop"
           /\ UNCHANGED stoppedBy

\* const newNodeCount = await this.page.evaluate(...length), then the comparison;
\* the block's newHeight goes out of scope with it
CaptureNodeCount ==
    /\ pc = "new_n"
    /\ UNCHANGED <<netVars, formVars, dynVars, valVars, infVars>>
    /\ \E p \in Pages : Observe(p)
    /\ \/ /\ Compare(page'.nodeCount)
          /\ Observed(newHeight, page'.nodeCount)
          /\ newHeight' = 0
          /\ UNCHANGED optVars
          /\ Returned
       \/ Catch

\* await this.page.waitForTimeout(delay * 2), in the no-growth branch
Backoff == PlainCall("backoff", "loop")

\* await this.page.waitForTimeout(delay * 2), in the catch block
CatchWait ==
    /\ pc = "catch_wait"
    /\ UNCHANGED <<netVars, formVars, dynVars, valVars, infVars>>
    /\ \E p \in Pages : Observe(p)
    /\ \/ pc' = "loop" /\ Returned
       \/ pc' = "rejected" /\ Thrown
    /\ UNCHANGED <<locVars, optVars, obsVars, stepVars>>

ScrollNext ==
    \/ Invoke
    \/ BaselineHeight
    \/ BaselineNodeCount
    \/ LoopTest
    \/ CheckSelector
    \/ CheckCallback
    \/ ScrollToBottom
    \/ WaitDelay
    \/ CaptureHeight
    \/ CaptureNodeCount
    \/ Backoff
    \/ CatchWait

Next == ScrollNext

Spec == Init /\ [][Next]_vars

\* Every page call of a run returns or throws: a step that can be taken is taken.
SpecFair == Init /\ [][Next]_vars /\ WF_vars(Next)

\* ------------------------------------------------ waitForNetworkResponse
\* url.includes(urlMatch)
Includes(url, pattern) ==
    \E i \in 0..(Len(url) - Len(pattern)) :
        SubSeq(url, i + 1, i + Len(pattern)) = pattern

\* typeof urlMatch === 'string' ? url.includes(urlMatch) : urlMatch.test(url)
Matches(m, url) ==
    IF m.kind = "string" THEN Includes(url, m.pattern) ELSE url \in m.accepts

\* resolve(v) on the call's promise: only the first call settles it.
Resolve(c, v) ==
    /\ result' = [result EXCEPT ![c] = IF result[c] = Pending THEN v ELSE result[c]]
    /\ resolves' = [resolves EXCEPT ![c] = resolves[c] + 1]

Settled(c) == result[c] # Pending

\* waitForNetworkResponse(urlMatch, timeout): arm the timer, register onResponse.
StartWait(c, m) ==
    /\ ~started[c]
    /\ started' = [started EXCEPT ![c] = TRUE]
    /\ urlMatch' = [urlMatch EXCEPT ![c] = m]
    /\ timers' = timers \cup {c}
    /\ listeners' = listeners \cup {c}
    /\ UNCHANGED <<reading, result, emitted, lastUrl, resolves, removals,
                   timerEnds, delivered, firstMatch, timerFired, readFailed>>
    /\ UNCHANGED <<page, scrollVars, formVars, dynVars, valVars, infVars>>

\* TimerFires without the removeListener call.
TimerFires_NoRemove(c) ==
    /\ c \in timers
    /\ timers' = timers \ {c}
    /\ timerEnds' = [timerEnds EXCEPT ![c] = timerEnds[c] + 1]
    /\ timerFired' = [timerFired EXCEPT ![c] = TRUE]
    /\ UNCHANGED <<listeners, removals>>
    /\ Resolve(c, Undefined)
    /\ UNCHANGED <<started, urlMatch, reading, emitted, lastUrl, delivered,
                   firstMatch, readFailed>>
    /\ UNCHANGED <<page, scrollVars, formVars, dynVars, valVars, infVars>>

\* The timer callback: removeListener, resolve(undefined).
TimerFires(c) ==
    /\ c \in timers
    /\ timers' = timers \ {c}
    /\ timerEnds' = [timerEnds EXCEPT ![c] = timerEnds[c] + 1]
    /\ timerFired' = [timerFired EXCEPT ![c] = TRUE]
    /\ listeners' = listeners \ {c}
    /\ removals' = [removals EXCEPT ![c] = removals[c] + 1]
    /\ Resolve(c, Undefined)
    /\ UNCHANGED <<started, urlMatch, reading, emitted, lastUrl, delivered,
                   firstMatch, readFailed>>
    /\ UNCHANGED <<page, scrollVars, formVars, dynVars, valVars, infVars>>

\* EmitResponse whose onResponse does not remove its listener on a match.
EmitResponse_NoRemove(url) ==
    /\ emitted < MaxEvents
    /\ emitted' = emitted + 1
    /\ lastUrl' = url
    /\ LET hit == {c \in listeners : Matches(urlMatch[c], url)} IN
         /\ delivered' = [c \in Calls |->
                IF c \in listeners THEN delivered[c] + 1 ELSE delivered[c]]
         /\ timers' = timers \ hit
         /\ timerEnds' = [c \in Calls |->
                IF c \in hit THEN timerEnds[c] + 1 ELSE timerEnds[c]]
         /\ UNCHANGED <<listeners, removals>>
         /\ reading' = [c \in Calls |->
                IF c \in hit THEN reading[c] \cup {emitted + 1} ELSE reading[c]]
         /\ firstMatch' = [c \in Calls |->
                IF c \in hit /\ firstMatch[c] = 0 THEN emitted + 1 ELSE firstMatch[c]]
    /\ UNCHANGED <<started, urlMatch, result, resolves, timerFired, readFailed>>
    /\ UNCHANGED <<page, scrollVars, formVars, dynVars, valVars, infVars>>

\* EmitResponse whose onResponse does not clear its timer on a match.
EmitResponse_NoClear(url) ==
    /\ emitted < MaxEvents
    /\ emitted' = emitted + 1
    /\ lastUrl' = url
    /\ LET hit == {c \in listeners : Matches(urlMatch[c], url)} IN
         /\ delivered' = [c \in Calls |->
                IF c \in listeners THEN delivered[c] + 1 ELSE delivered[c]]
         /\ UNCHANGED <<timers, timerEnds>>
         /\ listeners' = listeners \ hit
         /\ removals' = [c \in Calls |->
                IF c \in hit THEN removals[c] + 1 ELSE removals[c]]
         /\ reading' = [c \in Calls |->
                IF c \in hit THEN reading[c] \cup {emitted + 1} ELSE reading[c]]
         /\ firstMatch' = [c \in Calls |->
                IF c \in hit /\ firstMatch[c] = 0 THEN emitted + 1 ELSE firstMatch[c]]
    /\ UNCHANGED <<started, urlMatch, result, resolves, timerFired, readFailed>>
    /\ UNCHANGED <<page, scrollVars, formVars, dynVars, valVars, infVars>>

\* EmitResponse whose onResponse takes every response for a match.
EmitResponse_NoFilter(url) ==
    /\ emitted < MaxEvents
    /\ emitted' = emitted + 1
    /\ lastUrl' = url
    /\ LET hit == listeners IN
         /\ delivered' = [c \in Calls |->
                IF c \in listeners THEN delivered[c] + 1 ELSE delivered[c]]
         /\ timers' = timers \ hit
         /\ timerEnds' = [c \in Calls |->
                IF c \in hit THEN timerEnds[c] + 1 ELSE timerEnds[c]]
         /\ listeners' = listeners \ hit
         /\ removals' = [c \in Calls |->
                IF c \in hit THEN removals[c] + 1 ELSE removals[c]]
         /\ reading' = [c \in Calls |->
                IF c \in hit THEN reading[c] \cup {emitted + 1} ELSE reading[c]]
         /\ firstMatch' = [c \in Calls |->
                IF c \in hit /\ firstMatch[c] = 0 THEN emitted + 1 ELSE firstMatch[c]]
    /\ UNCHANGED <<started, urlMatch, result, resolves, timerFired, readFailed>>
    /\ UNCHANGED <<page, scrollVars, formVars, dynVars, valVars, infVars>>

\* The page emits 'response' for a response with this url: every registered
\* onResponse runs up to its await of response.text().
EmitResponse(url) ==
    /\ emitted < MaxEvents
    /\ emitted' = emitted + 1
    /\ lastUrl' = url
    /\ LET hit == {c \in listeners : Matches(urlMatch[c], url)} IN
         /\ delivered' = [c \in Calls |->
                IF c \in listeners THEN delivered[c] + 1 ELSE delivered[c]]
         /\ timers' = timers \ hit
         /\ timerEnds' = [c \in Calls |->
                IF c \in hit THEN timerEnds[c] + 1 ELSE timerEnds[c]]
         /\ listeners' = listeners \ hit
         /\ removals' = [c \in Calls |->
                IF c \in hit THEN removals[c] + 1 ELSE removals[c]]
         /\ reading' = [c \in Calls |->
                IF c \in hit THEN reading[c] \cup {emitted + 1} ELSE reading[c]]
         /\ firstMatch' = [c \in Calls |->
                IF c \in hit /\ firstMatch[c] = 0 THEN emitted + 1 ELSE firstMatch[c]]
    /\ UNCHANGED <<started, urlMatch, result, resolves, timerFired, readFailed>>
    /\ UNCHANGED <<page, scrollVars, formVars, dynVars, valVars, infVars>>

\* try { resolve(await response.text()) } catch (err) { resolve(undefined) }
TextDone(c, e) ==
    /\ e \in reading[c]
    /\ reading' = [reading EXCEPT ![c] = reading[c] \ {e}]
    /\ \/ Resolve(c, Text(e)) /\ UNCHANGED readFailed
       \/ Resolve(c, Undefined) /\ readFailed' = [readFailed EXCEPT ![c] = TRUE]
    /\ UNCHANGED <<started, urlMatch, listeners, timers, emitted, lastUrl, removals,
                   timerEnds, delivered, firstMatch, timerFired>>
    /\ UNCHANGED <<page, scrollVars, formVars, dynVars, valVars, infVars>>

NetNext ==
    \/ \E c \in Calls, m \in Matchers : StartWait(c, m)
    \/ \E c \in Calls : TimerFires(c)
    \/ \E url \in Urls : EmitResponse(url)
    \/ \E c \in Calls, e \in 1..MaxEvents : TextDone(c, e)

SpecNet == Init /\ [][NetNext]_vars

\* A timer that is armed fires in the end; nothing says that a read of a
\* response body completes.
SpecNetFair ==
    Init /\ [][NetNext]_vars /\ \A c \in Calls : WF_vars(TimerFires(c))

\* ------------------------------------------------------------ handleForm
formGhosts == <<seen, acted, validations, validSaid, formFound, submits, navigated,
                navWait>>
FormPcs == {"idle", "locate", "resolve", "type", "tagName", "fill", "validate",
            "lookup", "submit", "navigation", "returned"}

\* return { success: errors.length === 0, errors }
Return(errs) ==
    /\ errors' = errs
    /\ success' = IF errs = <<>> THEN "true" ELSE "false"
    /\ fpc' = "returned"

\* SubmitGate that looks only at submit, not at the error list.
SubmitGate_Always(errs) ==
    /\ gate' = IF errs = <<>> THEN "clean" ELSE "dirty"
    /\ IF submit
         THEN errors' = errs /\ fpc' = "lookup" /\ UNCHANGED success
         ELSE Return(errs)

\* if (submit && errors.length === 0) { const form = await this.page.$(formSelector) ... }
SubmitGate(errs) ==
    /\ gate' = IF errs = <<>> THEN "clean" ELSE "dirty"
    /\ IF submit /\ errs = <<>>
         THEN errors' = errs /\ fpc' = "lookup" /\ UNCHANGED success
         ELSE Return(errs)

\* if (validate) { const validationResult = await this.page.evaluate(validate) ... }
AfterLoop(errs) ==
    IF validate
      THEN errors' = errs /\ fpc' = "validate" /\ UNCHANGED <<success, gate>>
      ELSE SubmitGate(errs)

\* for (const [selector, value] of Object.entries(fields)): on to the next
\* entry, or out of the loop after the last one.
NextField(errs) ==
    IF idx < Len(fields)
      THEN /\ idx' = idx + 1
           /\ fpc' = "resolve"
           /\ errors' = errs
           /\ UNCHANGED <<success, gate>>
      ELSE /\ idx' = idx
           /\ AfterLoop(errs)

\* OuterCatch that returns without recording the failure.
OuterCatch_NoPush ==
    /\ errors' = errors
    /\ success' = "false"
    /\ fpc' = "returned"
    /\ UNCHANGED gate

\* catch (error) { errors.push(`Form handling error: ...`); return { success: false, errors } }
OuterCatch ==
    /\ errors' = Append(errors, FormError)
    /\ success' = "false"
    /\ fpc' = "returned"
    /\ UNCHANGED gate

\* InnerCatch that gives up the remaining fields after recording the failure.
InnerCatch_Abort ==
    /\ idx' = idx
    /\ AfterLoop(Append(errors, FillError(idx)))
    /\ fThrew' = TRUE
    /\ failed' = failed \cup {idx}

\* catch (error) { errors.push(`Error filling ${selector}: ...`) }, then the next field
InnerCatch ==
    /\ NextField(Append(errors, FillError(idx)))
    /\ fThrew' = TRUE
    /\ failed' = failed \cup {idx}

\* handleForm(options): destructure the options, const errors = [].
FormCall(fs, sub, val) ==
    /\ fpc = "idle"
    /\ fields' = fs /\ submit' = sub /\ validate' = val
    /\ errors' = <<>>
    /\ fpc' = "locate"
    /\ UNCHANGED <<success, idx, type, tag, gate, fThrew, failed, located, formGhosts>>
    /\ UNCHANGED <<page, scrollVars, netVars, dynVars, valVars, infVars>>

\* Locate with the failure of the wait swallowed: the fill loop runs anyway.
Locate_Swallow ==
    /\ fpc = "locate"
    /\ \/ /\ located' = "found"
          /\ IF Len(fields) >= 1
               THEN /\ idx' = 1 /\ fpc' = "resolve"
                    /\ UNCHANGED <<errors, success, gate>>
               ELSE /\ idx' = idx /\ AfterLoop(errors)
          /\ UNCHANGED <<fThrew, failed>>
       \/ /\ located' = "timeout"
          /\ IF Len(fields) >= 1
               THEN /\ idx' = 1 /\ fpc' = "resolve"
                    /\ UNCHANGED <<errors, success, gate>>
               ELSE /\ idx' = idx /\ AfterLoop(errors)
          /\ fThrew' = TRUE /\ UNCHANGED failed
    /\ UNCHANGED <<fields, submit, validate, type, tag, formGhosts>>
    /\ UNCHANGED <<page, scrollVars, netVars, dynVars, valVars, infVars>>

\* await this.page.waitForSelector(formSelector, { timeout })
Locate ==
    /\ fpc = "locate"
    /\ \/ /\ located' = "found"
          /\ IF Len(fields) >= 1
               THEN /\ idx' = 1 /\ fpc' = "resolve"
                    /\ UNCHANGED <<errors, success, gate>>
               ELSE /\ idx' = idx /\ AfterLoop(errors)
          /\ UNCHANGED <<fThrew, failed>>
       \/ /\ located' = "timeout"
          /\ OuterCatch
          /\ fThrew' = TRUE /\ UNCHANGED failed
          /\ UNCHANGED idx
    /\ UNCHANGED <<fields, submit, validate, type, tag, formGhosts>>
    /\ UNCHANGED <<page, scrollVars, netVars, dynVars, valVars, infVars>>

\* ResolveField that leaves the loop at a missing field (break for continue).
ResolveField_Break ==
    /\ fpc = "resolve"
    /\ \/ /\ seen' = Append(seen, "found")
          /\ fpc' = "type"
          /\ UNCHANGED <<errors, success, gate, idx, fThrew, failed>>
       \/ /\ seen' = Append(seen, "null")
          /\ idx' = idx
          /\ AfterLoop(Append(errors, NotFound(idx)))
          /\ UNCHANGED <<fThrew, failed>>
       \/ /\ seen' = Append(seen, "threw")
          /\ InnerCatch
    /\ UNCHANGED <<fields, submit, validate, type, tag>>
    /\ UNCHANGED <<acted, validations, validSaid, formFound, submits, navigated, navWait>>
    /\ UNCHANGED <<page, scrollVars, netVars, dynVars, valVars, infVars, located>>

\* const element = await this.page.$(selector); if (!element) { errors.push(...); continue }
ResolveField ==
    /\ fpc = "resolve"
    /\ \/ /\ seen' = Append(seen, "found")
          /\ fpc' = "type"
          /\ UNCHANGED <<errors, success, gate, idx, fThrew, failed>>
       \/ /\ seen' = Append(seen, "null")
          /\ NextField(Append(errors, NotFound(idx)))
          /\ UNCHANGED <<fThrew, failed>>
       \/ /\ seen' = Append(seen, "threw")
          /\ InnerCatch
    /\ UNCHANGED <<fields, submit, validate, type, tag>>
    /\ UNCHANGED <<acted, validations, validSaid, formFound, submits, navigated, navWait>>
    /\ UNCHANGED <<page, scrollVars, netVars, dynVars, valVars, infVars, located>>

\* const type = await element.evaluate(el => el.type)
EvaluateType ==
    /\ fpc = "type"
    /\ \/ /\ \E t \in ElTypes : type' = t
          /\ fpc' = "tagName"
          /\ UNCHANGED <<errors, success, gate, idx, fThrew, failed>>
       \/ /\ InnerCatch
          /\ type' = "none"
    /\ UNCHANGED <<fields, submit, validate, tag, formGhosts>>
    /\ UNCHANGED <<page, scrollVars, netVars, dynVars, valVars, infVars, located>>

\* Dispatch that looks at the element's type before its tag.
Dispatch_TypeFirst(tagName, t, value) ==
    IF t = "checkbox" \/ t = "radio" THEN (IF value THEN "click" ELSE "skip")
    ELSE IF t = "file" THEN "uploadFile"
    ELSE IF tagName = "select" THEN "select"
    ELSE "type"

\* if (tagName === 'select') ... else if (type === 'checkbox' || type === 'radio') ...
\* else if (type === 'file') ... else ...: the driver call made for the field;
\* "skip" is a checkbox or radio whose value is falsy.
Dispatch(tagName, t, value) ==
    IF tagName = "select" THEN "select"
    ELSE IF t = "checkbox" \/ t = "radio" THEN (IF value THEN "click" ELSE "skip")
    ELSE IF t = "file" THEN "uploadFile"
    ELSE "type"

\* const tagName = await element.evaluate(el => el.tagName.toLowerCase()), then the dispatch
EvaluateTagName ==
    /\ fpc = "tagName"
    /\ \/ /\ \E tagName \in TagNames :
               LET action == Dispatch(tagName, type, fields[idx]) IN
                 /\ acted' = Append(acted, <<idx, action>>)
                 /\ tag' = tagName
                 /\ IF action = "skip"
                      THEN NextField(errors)
                      ELSE /\ fpc' = "fill"
                           /\ UNCHANGED <<errors, success, gate, idx>>
          /\ UNCHANGED <<fThrew, failed>>
       \/ /\ InnerCatch
          /\ UNCHANGED <<acted, tag>>
    /\ type' = "none"
    /\ UNCHANGED <<fields, submit, validate>>
    /\ UNCHANGED <<seen, validations, validSaid, formFound, submits, navigated, navWait>>
    /\ UNCHANGED <<page, scrollVars, netVars, dynVars, valVars, infVars, located>>

\* await this.page.select(...) / element.click() / element.uploadFile(...) / element.type(...)
Fill ==
    /\ fpc = "fill"
    /\ \/ NextField(errors) /\ UNCHANGED <<fThrew, failed>>
       \/ InnerCatch
    /\ UNCHANGED <<fields, submit, validate, type, tag, formGhosts>>
    /\ UNCHANGED <<page, scrollVars, netVars, dynVars, valVars, infVars, located>>

\* Validate with the validator evaluated outside the try block.
Validate_Unguarded ==
    /\ fpc = "validate"
    /\ validations' = validations + 1
    /\ \/ /\ validSaid' = "valid"
          /\ SubmitGate(errors)
          /\ UNCHANGED <<fThrew, failed>>
       \/ /\ validSaid' = "invalid"
          /\ \E m \in 0..MaxValidatorErrors :
               SubmitGate(errors \o [k \in 1..m |-> ValidatorError(k)])
          /\ UNCHANGED <<fThrew, failed>>
       \/ /\ UNCHANGED <<validSaid, errors, success, gate>>
          /\ fpc' = "rejected"
          /\ fThrew' = TRUE /\ UNCHANGED failed
    /\ UNCHANGED <<fields, submit, validate, idx, type, tag>>
    /\ UNCHANGED <<seen, acted, formFound, submits, navigated, navWait>>
    /\ UNCHANGED <<page, scrollVars, netVars, dynVars, valVars, infVars, located>>

\* Validate that appends the returned errors whatever valid says.
Validate_AlwaysAppend ==
    /\ fpc = "validate"
    /\ validations' = validations + 1
    /\ \/ /\ validSaid' = "valid"
          /\ \E m \in 0..MaxValidatorErrors :
               SubmitGate(errors \o [k \in 1..m |-> ValidatorError(k)])
          /\ UNCHANGED <<fThrew, failed>>
       \/ /\ validSaid' = "invalid"
          /\ \E m \in 0..MaxValidatorErrors :
               SubmitGate(errors \o [k \in 1..m |-> ValidatorError(k)])
          /\ UNCHANGED <<fThrew, failed>>
       \/ /\ UNCHANGED validSaid
          /\ OuterCatch
          /\ fThrew' = TRUE /\ UNCHANGED failed
    /\ UNCHANGED <<fields, submit, validate, idx, type, tag>>
    /\ UNCHANGED <<seen, acted, formFound, submits, navigated, navWait>>
    /\ UNCHANGED <<page, scrollVars, netVars, dynVars, valVars, infVars, located>>

\* const validationResult = await this.page.evaluate(validate);
\* if (!validationResult.valid) { errors.push(...validationResult.errors) }
\* A result that is not an object, or an invalid one without an iterable
\* errors, raises a TypeError here: it is the throwing case.
Validate ==
    /\ fpc = "validate"
    /\ validations' = validations + 1
    /\ \/ /\ validSaid' = "valid"
          /\ SubmitGate(errors)
          /\ UNCHANGED <<fThrew, failed>>
       \/ /\ validSaid' = "invalid"
          /\ \E m \in 0..MaxValidatorErrors :
               SubmitGate(errors \o [k \in 1..m |-> ValidatorError(k)])
          /\ UNCHANGED <<fThrew, failed>>
       \/ /\ UNCHANGED validSaid
          /\ OuterCatch
          /\ fThrew' = TRUE /\ UNCHANGED failed
    /\ UNCHANGED <<fields, submit, validate, idx, type, tag>>
    /\ UNCHANGED <<seen, acted, formFound, submits, navigated, navWait>>
    /\ UNCHANGED <<page, scrollVars, netVars, dynVars, valVars, infVars, located>>

\* const form = await this.page.$(formSelector); form.evaluate(form => form.submit())
\* is called on what came back: on null that is a TypeError.
LookupForm ==
    /\ fpc = "lookup"
    /\ \/ /\ formFound' = "found"
          /\ submits' = submits + 1
          /\ fpc' = "submit"
          /\ UNCHANGED <<errors, success, gate, fThrew, failed>>
       \/ /\ formFound' = "null"
          /\ OuterCatch
          /\ UNCHANGED <<submits, fThrew, failed>>
       \/ /\ formFound' = "threw"
          /\ OuterCatch
          /\ fThrew' = TRUE /\ UNCHANGED failed
          /\ UNCHANGED submits
    /\ UNCHANGED <<fields, submit, validate, idx, type, tag>>
    /\ UNCHANGED <<seen, acted, validations, validSaid, navigated, navWait>>
    /\ UNCHANGED <<page, scrollVars, netVars, dynVars, valVars, infVars, located>>

\* await form.evaluate(form => form.submit())
Submit ==
    /\ fpc = "submit"
    /\ \/ /\ fpc' = "navigation"
          /\ UNCHANGED <<errors, success, gate, fThrew, failed>>
       \/ /\ OuterCatch
          /\ fThrew' = TRUE /\ UNCHANGED failed
    /\ UNCHANGED <<fields, submit, validate, idx, type, tag, formGhosts>>
    /\ UNCHANGED <<page, scrollVars, netVars, dynVars, valVars, infVars, located>>

\* WaitForNavigation with a navigation timeout swallowed.
WaitForNavigation_Swallow ==
    /\ fpc = "navigation"
    /\ \/ /\ navigated' = TRUE /\ navWait' = "done"
          /\ Return(errors)
          /\ UNCHANGED <<gate, fThrew, failed>>
       \/ /\ Return(errors)
          /\ fThrew' = TRUE /\ UNCHANGED failed
          /\ UNCHANGED <<gate, navigated>> /\ navWait' = "timeout"
    /\ UNCHANGED <<fields, submit, validate, idx, type, tag>>
    /\ UNCHANGED <<seen, acted, validations, validSaid, formFound, submits>>
    /\ UNCHANGED <<page, scrollVars, netVars, dynVars, valVars, infVars, located>>

\* WaitForNavigation that submits the form once more after a navigation timeout.
WaitForNavigation_Retry ==
    /\ fpc = "navigation"
    /\ \/ /\ navigated' = TRUE /\ navWait' = "done"
          /\ Return(errors)
          /\ UNCHANGED <<gate, fThrew, failed>>
       \/ /\ IF submits < 2
               THEN fpc' = "lookup" /\ UNCHANGED <<errors, success, gate>>
               ELSE OuterCatch
          /\ fThrew' = TRUE /\ UNCHANGED failed
          /\ UNCHANGED navigated /\ navWait' = "timeout"
    /\ UNCHANGED <<fields, submit, validate, idx, type, tag>>
    /\ UNCHANGED <<seen, acted, validations, validSaid, formFound, submits>>
    /\ UNCHANGED <<page, scrollVars, netVars, dynVars, valVars, infVars, located>>

\* await this.page.waitForNavigation({ timeout }); return {...}
WaitForNavigation ==
    /\ fpc = "navigation"
    /\ \/ /\ navigated' = TRUE /\ navWait' = "done"
          /\ Return(errors)
          /\ UNCHANGED <<gate, fThrew, failed>>
       \/ /\ OuterCatch
          /\ fThrew' = TRUE /\ UNCHANGED failed
          /\ UNCHANGED navigated /\ navWait' = "timeout"
    /\ UNCHANGED <<fields, submit, validate, idx, type, tag>>
    /\ UNCHANGED <<seen, acted, validations, validSaid, formFound, submits>>
    /\ UNCHANGED <<page, scrollVars, netVars, dynVars, valVars, infVars, located>>

FormNext ==
    \/ \E fs \in FieldLists, sub \in BOOLEAN, val \in BOOLEAN : FormCall(fs, sub, val)
    \/ Locate
    \/ ResolveField
    \/ EvaluateType
    \/ EvaluateTagName
    \/ Fill
    \/ Validate
    \/ LookupForm
    \/ Submit
    \/ WaitForNavigation

SpecForm == Init /\ [][FormNext]_vars

\* ----------------------------------------------- handleDynamicFormFields
\* catch (error) { console.error(...); return [] }
DynCatch(call) ==
    /\ dynFailed' = call
    /\ dynResult' = {}
    /\ dpc' = "returned"

\* handleDynamicFormFields(options): the call, up to this.page.click(triggerSelector)
DynCall ==
    /\ dpc = "idle"
    /\ dpc' = "click"
    /\ dynCalls' = <<"click">>
    /\ \E m \in SUBSET DynElements : matching' = m
    /\ UNCHANGED <<dynResult, dynFailed>>
    /\ UNCHANGED <<page, scrollVars, netVars, formVars, valVars, infVars>>

\* await this.page.click(triggerSelector)
DynClick ==
    /\ dpc = "click"
    /\ \E m \in SUBSET DynElements : matching' = m
    /\ \/ /\ dpc' = "wait"
          /\ dynCalls' = Append(dynCalls, "waitForSelector")
          /\ UNCHANGED <<dynResult, dynFailed>>
       \/ /\ DynCatch("click")
          /\ UNCHANGED dynCalls
    /\ UNCHANGED <<page, scrollVars, netVars, formVars, valVars, infVars>>

\* DynWait with the timeout of the wait swallowed: the query runs anyway.
DynWait_Swallow ==
    /\ dpc = "wait"
    /\ \E m \in SUBSET DynElements : matching' = m
    /\ \/ /\ matching' # {}
          /\ dpc' = "query"
          /\ dynCalls' = Append(dynCalls, "$$")
          /\ UNCHANGED <<dynResult, dynFailed>>
       \/ /\ dynFailed' = "waitForSelector"
          /\ dpc' = "query"
          /\ dynCalls' = Append(dynCalls, "$$")
          /\ UNCHANGED dynResult
    /\ UNCHANGED <<page, scrollVars, netVars, formVars, valVars, infVars>>


\* await this.page.waitForSelector(fieldSelector, { timeout }): it returns
\* once a matching element is in the document.
DynWait ==
    /\ dpc = "wait"
    /\ \E m \in SUBSET DynElements : matching' = m
    /\ \/ /\ matching' # {}
          /\ dpc' = "query"
          /\ dynCalls' = Append(dynCalls, "$$")
          /\ UNCHANGED <<dynResult, dynFailed>>
       \/ /\ DynCatch("waitForSelector")
          /\ UNCHANGED dynCalls
    /\ UNCHANGED <<page, scrollVars, netVars, formVars, valVars, infVars>>

\* const fields = await this.page.$$(fieldSelector); return fields
DynQuery ==
    /\ dpc = "query"
    /\ \E m \in SUBSET DynElements : matching' = m
    /\ \/ /\ dynResult' = matching'
          /\ dpc' = "returned"
          /\ UNCHANGED dynFailed
       \/ DynCatch("$$")
    /\ UNCHANGED dynCalls
    /\ UNCHANGED <<page, scrollVars, netVars, formVars, valVars, infVars>>

DynNext ==
    \/ DynCall
    \/ DynClick
    \/ DynWait
    \/ DynQuery

SpecDyn == Init /\ [][DynNext]_vars

\* ---------------------------------------------------------- validateForm
\* String.prototype.trim, on a text given by its characters.
RECURSIVE TrimStart(_)
TrimStart(t) == IF t # <<>> /\ Head(t) = " " THEN TrimStart(Tail(t)) ELSE t

RECURSIVE TrimEnd(_)
TrimEnd(t) ==
    IF t # <<>> /\ t[Len(t)] = " " THEN TrimEnd(SubSeq(t, 1, Len(t) - 1)) ELSE t

Trim(t) == TrimEnd(TrimStart(t))

\* VCatch that returns an empty errors list.
VCatch_NoMessage(call) ==
    /\ vFailed' = call
    /\ valid' = "false"
    /\ vErrors' = <<>>
    /\ vpc' = "returned"

\* catch (error) { console.error(...); return { valid: false, errors: [error.message] } }
VCatch(call) ==
    /\ vFailed' = call
    /\ valid' = "false"
    /\ vErrors' = <<ErrorMessage>>
    /\ vpc' = "returned"

\* validateForm(options): destructure the options, up to the first page call.
ValidateFormCall ==
    /\ vpc = "idle"
    /\ vpc' = "report"
    /\ vCalls' = <<"reportValidity">>
    /\ \E l \in ErrorElementLists : errorElements' = l
    /\ UNCHANGED <<formExists, reported, valid, vErrors, vFailed>>
    /\ UNCHANGED <<page, scrollVars, netVars, formVars, dynVars, infVars>>

\* await this.page.evaluate(selector => { const form = document.querySelector(selector);
\* if (form) form.reportValidity() }, formSelector)
ForceValidation ==
    /\ vpc = "report"
    /\ \E l \in ErrorElementLists : errorElements' = l
    /\ \/ /\ \E f \in BOOLEAN : formExists' = f /\ reported' = f
          /\ vpc' = "settle"
          /\ vCalls' = Append(vCalls, "waitForTimeout")
          /\ UNCHANGED <<valid, vErrors, vFailed>>
       \/ /\ VCatch("reportValidity")
          /\ UNCHANGED <<formExists, reported, vCalls>>
    /\ UNCHANGED <<page, scrollVars, netVars, formVars, dynVars, infVars>>

\* await this.page.waitForTimeout(500)
SettleDelay ==
    /\ vpc = "settle"
    /\ \E l \in ErrorElementLists : errorElements' = l
    /\ \/ /\ vpc' = "collect"
          /\ vCalls' = Append(vCalls, "collect")
          /\ UNCHANGED <<valid, vErrors, vFailed>>
       \/ /\ VCatch("waitForTimeout")
          /\ UNCHANGED vCalls
    /\ UNCHANGED <<formExists, reported>>
    /\ UNCHANGED <<page, scrollVars, netVars, formVars, dynVars, infVars>>

\* const errors = await this.page.evaluate(selector => Array.from(
\* document.querySelectorAll(selector)).map(el => el.textContent.trim()), errorSelector);
\* return { valid: errors.length === 0, errors }
CollectErrors ==
    /\ vpc = "collect"
    /\ \E l \in ErrorElementLists : errorElements' = l
    /\ \/ /\ vErrors' = [i \in DOMAIN errorElements' |-> Trim(errorElements'[i])]
          /\ valid' = IF Len(vErrors') = 0 THEN "true" ELSE "false"
          /\ vpc' = "returned"
          /\ UNCHANGED vFailed
       \/ VCatch("collect")
    /\ UNCHANGED <<formExists, reported, vCalls>>
    /\ UNCHANGED <<page, scrollVars, netVars, formVars, dynVars, infVars>>

ValidateFormNext ==
    \/ ValidateFormCall
    \/ ForceValidation
    \/ SettleDelay
    \/ CollectErrors

SpecValidate == Init /\ [][ValidateFormNext]_vars

\* --------------------------------------------------- handleInfiniteScroll
\* The document as the next page call finds it: its height may have changed.
HeightNow(h) == page' = [page EXCEPT !.height = h]

\* catch (error) { console.log('No load more button found') }: on to the
\* height comparison.
Swallow ==
    /\ swallowed' = TRUE
    /\ ipc' = "i_new"

\* handleInfiniteScroll(options): destructure the options, zero the locals.
InfCall ==
    /\ ipc = "idle"
    /\ \E ms \in 0..MaxScrollsBound, lm \in BOOLEAN :
         iMaxScrolls' = ms /\ loadMoreSelector' = lm
    /\ previousHeight' = 0 /\ iScrollCount' = 0
    /\ ipc' = "i_loop"
    /\ UNCHANGED <<page, clicks, swallowed>>
    /\ UNCHANGED <<scrollVars, netVars, formVars, dynVars, valVars>>

\* while (scrollCount < maxScrolls)
InfLoopTest ==
    /\ ipc = "i_loop"
    /\ ipc' = IF iScrollCount < iMaxScrolls THEN "i_prev" ELSE "i_done"
    /\ UNCHANGED <<page, iMaxScrolls, loadMoreSelector, iScrollCount, previousHeight,
                   clicks, swallowed>>
    /\ UNCHANGED <<scrollVars, netVars, formVars, dynVars, valVars>>

\* previousHeight = await this.page.evaluate('document.body.scrollHeight')
InfPreviousHeight ==
    /\ ipc = "i_prev"
    /\ \E h \in 0..MaxHeight : HeightNow(h)
    /\ \/ previousHeight' = page'.height /\ ipc' = "i_scroll"
       \/ UNCHANGED previousHeight /\ ipc' = "i_rejected"
    /\ UNCHANGED <<iMaxScrolls, loadMoreSelector, iScrollCount, clicks, swallowed>>
    /\ UNCHANGED <<scrollVars, netVars, formVars, dynVars, valVars>>

\* A page call outside the try block that only has to return: go on to `next`,
\* or reject the call's promise.
InfPlainCall(at, next) ==
    /\ ipc = at
    /\ \E h \in 0..MaxHeight : HeightNow(h)
    /\ ipc' \in {next, "i_rejected"}
    /\ UNCHANGED <<iMaxScrolls, loadMoreSelector, iScrollCount, previousHeight,
                   clicks, swallowed>>
    /\ UNCHANGED <<scrollVars, netVars, formVars, dynVars, valVars>>

\* await this.page.evaluate('window.scrollTo(0, document.body.scrollHeight)')
InfScroll == InfPlainCall("i_scroll", "i_wait")

\* await this.page.waitForTimeout(delay); if (loadMoreSelector) { try { ...
InfWait == InfPlainCall("i_wait", IF loadMoreSelector THEN "i_lookup" ELSE "i_new")

\* InfLookup whose failure is not caught.
InfLookup_Rethrow ==
    /\ ipc = "i_lookup"
    /\ \E h \in 0..MaxHeight : HeightNow(h)
    /\ \/ ipc' = "i_click" /\ UNCHANGED swallowed
       \/ ipc' = "i_new" /\ UNCHANGED swallowed
       \/ ipc' = "i_rejected" /\ UNCHANGED swallowed
    /\ UNCHANGED <<iMaxScrolls, loadMoreSelector, iScrollCount, previousHeight, clicks>>
    /\ UNCHANGED <<scrollVars, netVars, formVars, dynVars, valVars>>

\* const loadMoreButton = await this.page.$(loadMoreSelector); if (loadMoreButton) {...}
InfLookup ==
    /\ ipc = "i_lookup"
    /\ \E h \in 0..MaxHeight : HeightNow(h)
    /\ \/ ipc' = "i_click" /\ UNCHANGED swallowed
       \/ ipc' = "i_new" /\ UNCHANGED swallowed
       \/ Swallow
    /\ UNCHANGED <<iMaxScrolls, loadMoreSelector, iScrollCount, previousHeight, clicks>>
    /\ UNCHANGED <<scrollVars, netVars, formVars, dynVars, valVars>>

\* await loadMoreButton.click()
InfClick ==
    /\ ipc = "i_click"
    /\ \E h \in 0..MaxHeight : HeightNow(h)
    /\ clicks' = clicks + 1
    /\ \/ ipc' = "i_wait2" /\ UNCHANGED swallowed
       \/ Swallow
    /\ UNCHANGED <<iMaxScrolls, loadMoreSelector, iScrollCount, previousHeight>>
    /\ UNCHANGED <<scrollVars, netVars, formVars, dynVars, valVars>>

\* await this.page.waitForTimeout(delay), after the click
InfWaitAgain ==
    /\ ipc = "i_wait2"
    /\ \E h \in 0..MaxHeight : HeightNow(h)
    /\ \/ ipc' = "i_new" /\ UNCHANGED swallowed
       \/ Swallow
    /\ UNCHANGED <<iMaxScrolls, loadMoreSelector, iScrollCount, previousHeight, clicks>>
    /\ UNCHANGED <<scrollVars, netVars, formVars, dynVars, valVars>>

\* const newHeight = await this.page.evaluate('document.body.scrollHeight');
\* if (newHeight === previousHeight) break; scrollCount++
InfNewHeight ==
    /\ ipc = "i_new"
    /\ \E h \in 0..MaxHeight : HeightNow(h)
    /\ \/ IF page'.height = previousHeight
            THEN ipc' = "i_done" /\ UNCHANGED iScrollCount
            ELSE ipc' = "i_loop" /\ iScrollCount' = iScrollCount + 1
       \/ ipc' = "i_rejected" /\ UNCHANGED iScrollCount
    /\ UNCHANGED <<iMaxScrolls, loadMoreSelector, previousHeight, clicks, swallowed>>
    /\ UNCHANGED <<scrollVars, netVars, formVars, dynVars, valVars>>

InfNext ==
    \/ InfCall
    \/ InfLoopTest
    \/ InfPreviousHeight
    \/ InfScroll
    \/ InfWait
    \/ InfLookup
    \/ InfClick
    \/ InfWaitAgain
    \/ InfNewHeight

SpecInf == Init /\ [][InfNext]_vars

\* ------------------------------------------- claims: advancedAutoScroll

\* C1: advancedAutoScroll never throws: whatever page call fails, the call
\* returns an outcome and its promise is never rejected.
C1_NeverThrows == pc # "rejected"

\* C2: the scroll counter never exceeds maxScrolls, in any state of a run.
C2_ScrollsBounded == pc # "idle" => scrollCount <= maxScrolls

C2_Witness == pc = "done" /\ maxScrolls = MaxScrollsBound /\ scrollCount = maxScrolls

\* C3: the reported reason follows the order selector > predicate >
\* stagnation ceiling > iteration ceiling: a run is not reported as stopped by
\* the iteration ceiling at a point where the configured selector is present
\* or the configured predicate holds.
C3_ReasonOrder ==
    (pc = "done" /\ stoppedBy = "maxScrolls")
        => /\ ~(untilSelector /\ page.selector)
           /\ ~(untilCallback /\ page.callback)

\* C4: with no page call throwing and no selector/predicate match, once
\* maxRetries consecutive steps have left height and node count unchanged
\* the run has returned stoppedBy = 'maxRetries', scrolls = the number of
\* productive steps before the streak, retries = maxRetries.
C4_StagnationOutcome ==
    (/\ pc # "idle"
     /\ ~anyThrow
     /\ stoppedBy \notin {"untilSelector", "untilCallback"}
     /\ streak >= 1
     /\ streak = maxRetries)
        => /\ pc = "done"
           /\ stoppedBy = "maxRetries"
           /\ scrollCount = productive
           /\ retries = maxRetries

C4_Witness ==
    /\ pc = "done" /\ ~anyThrow /\ stoppedBy = "maxRetries"
    /\ maxRetries = MaxRetriesBound /\ streak = maxRetries /\ productive >= 1

\* C5: an exception thrown by any page call inside a loop step is caught and
\* adds one to the retry counter; the loop goes on unless the counter has
\* reached maxRetries, in which case the outcome is stoppedBy = 'error'; a
\* no-growth step that reaches the ceiling gives stoppedBy = 'maxRetries'.
C5_LoopExceptions ==
    [][/\ (pc \in TryPcs \cup {"catch_wait"} /\ threw')
          => /\ pc' # "rejected"
             /\ retries' = retries + 1
             /\ IF retries' >= maxRetries
                  THEN pc' = "done" /\ stoppedBy' = "error"
                  ELSE pc' = "catch_wait"
       /\ (pc = "new_n" /\ ~threw' /\ retries' = retries + 1 /\ retries' >= maxRetries)
          => (pc' = "done" /\ stoppedBy' = "maxRetries")]_vars

\* The part of C5 that the try block guarantees.
TryExceptionsCounted ==
    [][(pc \in TryPcs /\ threw')
          => /\ pc' # "rejected"
             /\ retries' = retries + 1
             /\ IF retries' >= maxRetries
                  THEN pc' = "done" /\ stoppedBy' = "error"
                  ELSE pc' = "catch_wait"]_vars

\* C21: in every loop step the signal captured after the growth trigger is
\* compared against a baseline captured in that same step, before the trigger.
C21_BaselineInStep == pc = "new_n" => baselineAt = "step_start"

\* The comparison of the step being taken finds growth.
Grew == newHeight # lastHeight \/ page'.nodeCount # lastNodeCount

\* C22: a step is productive iff the new height or the new node count differs
\* from the baseline; a productive step adds one to scrolls and zeroes
\* retries; a non-productive step adds exactly one to retries and leaves
\* scrolls and the baseline unchanged.
C22_ProductiveIff ==
    [][/\ (pc = "new_n" /\ ~threw')
            => IF Grew
                 THEN scrollCount' = scrollCount + 1 /\ retries' = 0
                 ELSE /\ retries' = retries + 1
                      /\ UNCHANGED <<scrollCount, lastHeight, lastNodeCount>>
       /\ pc = "backoff"
            => UNCHANGED <<retries, scrollCount, lastHeight, lastNodeCount>>]_vars

\* C22 as amended: as above at the comparison; the doubled wait that ends a
\* non-productive step changes nothing when it returns, and when it throws the
\* catch adds one more to retries in the same step.
C22_ProductiveAtCompare ==
    [][/\ (pc = "new_n" /\ ~threw')
            => IF Grew
                 THEN /\ scrollCount' = scrollCount + 1 /\ retries' = 0
                      /\ lastHeight' = newHeight /\ lastNodeCount' = page'.nodeCount
                 ELSE /\ retries' = retries + 1
                      /\ UNCHANGED <<scrollCount, lastHeight, lastNodeCount>>
       /\ pc = "backoff"
            => /\ retries' = IF threw' THEN retries + 1 ELSE retries
               /\ UNCHANGED <<scrollCount, lastHeight, lastNodeCount>>]_vars

C22_Witness ==
    /\ pc = "done" /\ stoppedBy = "error"
    /\ scrollCount = 1 /\ productive = 1 /\ retries = 2 /\ streak = 1
    /\ lastHeight = obsHeight /\ lastNodeCount = obsNodeCount

\* C23: in every loop step the early-termination checks run before the
\* scroll, the selector check before the predicate check; a found selector
\* ends the run with 'untilSelector' without the predicate being evaluated, a
\* truthy predicate ends it with 'untilCallback'; in both cases no scroll and
\* no counter change follows.
C23_ChecksFirst ==
    [][/\ (pc = "loop" /\ pc' # "done")
            => pc' = IF untilSelector THEN "sel"
                     ELSE IF untilCallback THEN "cb" ELSE "scroll"
       /\ (pc = "sel" /\ ~threw')
            => IF page'.selector
                 THEN /\ pc' = "done" /\ stoppedBy' = "untilSelector"
                      /\ UNCHANGED <<scrollCount, retries>>
                 ELSE pc' = IF untilCallback THEN "cb" ELSE "scroll"
       /\ (pc = "cb" /\ ~threw')
            => IF page'.callback
                 THEN /\ pc' = "done" /\ stoppedBy' = "untilCallback"
                      /\ UNCHANGED <<scrollCount, retries>>
                 ELSE pc' = "scroll"
       /\ (pc' = "scroll" /\ pc # "scroll") => pc \in {"loop", "sel", "cb"}
       /\ (pc' = "cb" /\ pc # "cb") => pc \in {"loop", "sel"}
       /\ pc = "done" => UNCHANGED <<pc, locVars>>]_vars

C23_Witness ==
    /\ pc = "done" /\ stoppedBy = "untilSelector"
    /\ untilCallback /\ page.callback
    /\ scrollCount = 1 /\ retries = 0

\* C24: the run returns stoppedBy = 'maxScrolls' exactly when the loop was
\* left because scrolls had reached maxScrolls, and then scrolls = maxScrolls
\* and retries = 0.
C24_MaxScrollsOutcome ==
    /\ []((pc = "done" /\ stoppedBy = "maxScrolls")
            => (scrollCount = maxScrolls /\ retries = 0))
    /\ [][(pc' = "done" /\ pc # "done")
            => (stoppedBy' = "maxScrolls"
                  <=> (pc = "loop" /\ scrollCount >= maxScrolls))]_vars

C24_Witness ==
    /\ pc = "done" /\ stoppedBy = "maxScrolls"
    /\ maxScrolls = MaxScrollsBound /\ scrollCount = maxScrolls
    /\ anyThrow /\ maxRetries = MaxRetriesBound

\* C25: a stagnation or a caught exception that leaves retries below
\* maxRetries is followed by one wait of twice the delay, and the next loop
\* step comes after it; there is no doubled wait after a productive step or
\* after the step that reaches the ceiling.
C25_DoubledWait ==
    [][/\ (pc = "new_n" /\ ~threw')
            => pc' = IF scrollCount' = scrollCount + 1 THEN "loop"
                     ELSE IF retries' < maxRetries THEN "backoff" ELSE "done"
       /\ (pc \in TryPcs /\ threw')
            => pc' = IF retries' < maxRetries THEN "catch_wait" ELSE "done"
       /\ (pc' \in {"backoff", "catch_wait"} /\ pc' # pc)
            => (retries' = retries + 1 /\ retries' < maxRetries)
       /\ (pc \in {"backoff", "catch_wait"} /\ ~threw') => pc' = "loop"
       /\ (pc' = "loop" /\ pc \in TryPcs \ {"backoff"}) => retries' = 0]_vars

C25_Witness ==
    /\ pc = "backoff" /\ retries = 1 /\ maxRetries = 2
    /\ scrollCount = 1 /\ anyThrow

\* C26: no-growth steps and caught exceptions count on the same counter, and
\* the reason reported at the ceiling depends only on the step that reached
\* it: 'error' iff that step threw, 'maxRetries' iff it was a no-growth step.
C26_LastStepDecides ==
    /\ []((pc = "done" /\ stoppedBy \in {"error", "maxRetries"})
            => /\ retries >= maxRetries
               /\ stoppedBy = IF threw THEN "error" ELSE "maxRetries")
    /\ [][(retries' = retries + 1 /\ retries' >= maxRetries)
            => /\ pc' = "done"
               /\ stoppedBy' = IF threw' THEN "error" ELSE "maxRetries"]_vars

C26_Witness ==
    /\ pc = "done" /\ stoppedBy = "maxRetries" /\ anyThrow
    /\ retries = 2 /\ maxRetries = 2 /\ scrollCount = 0 /\ streak = 1

\* What is left of the loop's budget: every productive step still to come may
\* be preceded by retries up to the ceiling.
Budget == (maxScrolls - scrollCount) * maxRetries - retries

\* C27: a run with maxScrolls >= 1 and maxRetries >= 1 whose page calls all
\* return or throw terminates; the loop body is executed at most
\* maxScrolls * maxRetries times and 0 <= retries <= maxRetries throughout.
\* The count of body executions is bounded through the budget: it is
\* maxScrolls * maxRetries when the loop is entered, at least 1 whenever the
\* body is begun, never grows, and has dropped each time the loop test is
\* reached again.
C27_Terminates ==
    /\ []((pc # "idle" /\ maxScrolls >= 1 /\ maxRetries >= 1)
            => /\ 0 <= retries /\ retries <= maxRetries
               /\ (pc = "loop" /\ baselineAt = "before_loop" /\ ~anyThrow /\ streak = 0)
                    => Budget = maxScrolls * maxRetries
               /\ pc \in TryPcs \ {"backoff"} => Budget >= 1)
    /\ [][(pc \in LoopPcs /\ maxScrolls >= 1 /\ maxRetries >= 1)
            => /\ Budget' <= Budget
               /\ (pc = "new_n" /\ pc' = "loop") => Budget' < Budget
               /\ (pc' \in {"backoff", "catch_wait"} /\ pc' # pc) => Budget' < Budget
               /\ (pc' = "loop" /\ pc # "loop")
                    => pc \in {"new_n", "backoff", "catch_wait"}]_vars
    /\ (pc = "baseline_h" /\ maxScrolls >= 1 /\ maxRetries >= 1)
            ~> (pc \in {"done", "rejected"})

C27_Witness ==
    /\ pc = "done" /\ stoppedBy = "error"
    /\ maxScrolls = MaxScrollsBound /\ maxRetries = MaxRetriesBound
    /\ scrollCount = maxScrolls - 1 /\ retries = maxRetries

\* --------------------------------------- claims: waitForNetworkResponse

\* C6: each invocation settles exactly once: resolve is called at most once,
\* a call that took the match path holds the outcome of reading its first
\* matching response, a call whose timer fired holds undefined and saw no
\* match, and once settled neither the result nor the resolve count changes.
C6_SettlesOnce ==
    /\ [](\A c \in Calls :
            /\ resolves[c] <= 1
            /\ Settled(c) <=> resolves[c] = 1
            /\ ~(timerFired[c] /\ firstMatch[c] # 0)
            /\ (Settled(c) /\ firstMatch[c] # 0)
                  => result[c] \in {Text(firstMatch[c]), Undefined}
            /\ timerFired[c] => result[c] = Undefined)
    /\ [][\A c \in Calls :
            Settled(c) => result'[c] = result[c] /\ resolves'[c] = resolves[c]]_vars

C6_Witness ==
    \E c \in Calls :
        /\ result[c] = Text(1) /\ emitted >= 2
        /\ Matches(urlMatch[c], lastUrl)

\* C7: on either path the listener is deregistered once and the timer is
\* cleared or consumed once, no later than the result settles: a settled
\* call has neither a listener nor a timer registered.
C7_CleanupOnce ==
    \A c \in Calls :
        /\ removals[c] <= 1
        /\ timerEnds[c] <= 1
        /\ Settled(c) => /\ c \notin listeners
                         /\ c \notin timers
                         /\ removals[c] = 1
                         /\ timerEnds[c] = 1

C7_Witness ==
    \E c1, c2 \in Calls :
        /\ Settled(c1) /\ timerFired[c1]
        /\ Settled(c2) /\ firstMatch[c2] # 0

\* C8: a call that was handed no matching response settles only by its
\* timer, to undefined, and then has no listener registered; a call with no
\* listener registered (settled, or not yet made) is handed no event.
C8_TimeoutOnly ==
    /\ [](\A c \in Calls :
            (Settled(c) /\ firstMatch[c] = 0)
               => timerFired[c] /\ result[c] = Undefined /\ c \notin listeners)
    /\ [][\A c \in Calls :
            (Settled(c) \/ ~started[c]) => delivered'[c] = delivered[c]]_vars

C8_Witness ==
    \E c \in Calls :
        /\ Settled(c) /\ firstMatch[c] = 0 /\ timerFired[c]
        /\ delivered[c] >= 1 /\ emitted > delivered[c]

\* Two calls whose matchers accept no common URL.
Disjoint(c1, c2) ==
    \A url \in Urls : ~(Matches(urlMatch[c1], url) /\ Matches(urlMatch[c2], url))

\* An event matching only c2 leaves the pending call c1 as it was.
OthersUntouched ==
    \A c1, c2 \in Calls :
        (/\ c1 # c2 /\ Disjoint(c1, c2)
         /\ c1 \in listeners /\ c2 \in listeners
         /\ emitted' = emitted + 1
         /\ Matches(urlMatch[c2], lastUrl'))
            => /\ c1 \in listeners' /\ c1 \in timers'
               /\ result'[c1] = Pending /\ reading'[c1] = reading[c1]
               /\ c2 \notin listeners' /\ c2 \notin timers'

\* C9: of two pending calls with disjoint matchers, an event matching only
\* the second leaves the first call's listener and timer untouched and
\* resolves the second as matched; the first resolves as not-matched at its
\* own timeout.
C9_ConcurrentCalls ==
    /\ [][OthersUntouched]_vars
    /\ [](\A c \in Calls :
            /\ (Settled(c) /\ firstMatch[c] # 0) => result[c] = Text(firstMatch[c])
            /\ (Settled(c) /\ firstMatch[c] = 0) => timerFired[c] /\ result[c] = Undefined)

\* The part of C9 about ownership: each call has its own listener and timer.
CallsIsolated == [][OthersUntouched]_vars

\* C10: when a matching response arrived and reading its body failed, the
\* value the call settles to differs from the value of a timeout.
C10_ReadFailureIsMatch ==
    \A c \in Calls : (Settled(c) /\ readFailed[c]) => result[c] # Undefined

\* C11: a settled result carries a body if and only if the call was handed a
\* matching response.
C11_BodyIffMatched ==
    \A c \in Calls :
        Settled(c) => ((\E e \in 1..MaxEvents : result[c] = Text(e)) <=> firstMatch[c] # 0)

\* C11 as amended: a settled result carries a body if and only if the call
\* was handed a matching response and reading that response succeeded; the
\* body is then the text of the first matching response.
C11_BodyIffRead ==
    \A c \in Calls :
        Settled(c) =>
            /\ (\E e \in 1..MaxEvents : result[c] = Text(e))
                  <=> (firstMatch[c] # 0 /\ ~readFailed[c])
            /\ (firstMatch[c] # 0 /\ ~readFailed[c]) => result[c] = Text(firstMatch[c])

C11_Witness ==
    \E c1, c2 \in Calls :
        /\ Settled(c1) /\ firstMatch[c1] # 0 /\ readFailed[c1]
        /\ Settled(c2) /\ result[c2] = Text(firstMatch[c2])

\* C28: every waitForNetworkResponse invocation eventually settles, given
\* that an armed timer eventually fires; also after a matching response
\* whose body read never completes.
C28_EventuallySettles == \A c \in Calls : started[c] ~> Settled(c)

\* C29: a response whose URL does not match leaves a pending call as it was:
\* listener registered, timer armed, result unsettled.
C29_NonMatchIgnored ==
    [][\A c \in Calls :
         (/\ emitted' = emitted + 1
          /\ c \in listeners /\ c \in timers /\ ~Settled(c)
          /\ ~Matches(urlMatch[c], lastUrl'))
            => /\ c \in listeners' /\ c \in timers' /\ ~Settled(c)'
               /\ reading'[c] = reading[c]
               /\ removals'[c] = removals[c] /\ timerEnds'[c] = timerEnds[c]
               /\ delivered'[c] = delivered[c] + 1]_vars

C29_Witness ==
    \E c \in Calls :
        /\ c \in listeners /\ c \in timers /\ ~Settled(c)
        /\ delivered[c] = MaxEvents
        /\ \E d \in Calls \ {c} : Settled(d) /\ firstMatch[d] # 0

\* ------------------------------------------------- claims: handleForm
IsPrefix(a, b) == Len(a) <= Len(b) /\ SubSeq(b, 1, Len(a)) = a

\* The validator's errors were appended to the list.
ValidatorAdded == \E i \in DOMAIN errors : errors[i][1] = "validator"

\* C12: a submit action is performed only if submit was requested and, after
\* the fill loop and the custom validation, no error was recorded and the
\* validator did not report valid = false (whatever errors it returned).
C12_SubmitOnlyIfClean ==
    submits >= 1 => (submit /\ gate = "clean" /\ validSaid # "invalid")

\* C13: with submit = true, an error list that is empty after filling and
\* validation gives exactly one submit action during the call, and a list
\* with at least one error gives none.
C13_SubmitOnce ==
    (fpc = "returned" /\ submit)
        => /\ gate = "clean" => submits = 1
           /\ gate = "dirty" => submits = 0

\* C13 as amended: with submit = true and an empty error list the form is
\* looked up, and the submit action is triggered exactly once when the lookup
\* returns the form; when the lookup throws or returns null there is no
\* submit action and the call returns a form handling error. With at least
\* one error there is neither lookup nor submit. Never more than one submit.
C13_SubmitOnceIfFound ==
    /\ submits <= 1
    /\ (fpc = "returned" /\ submit)
        => /\ gate = "clean"
                => \/ formFound = "found" /\ submits = 1
                   \/ /\ formFound \in {"null", "threw"}
                      /\ submits = 0
                      /\ success = "false"
                      /\ errors = <<FormError>>
           /\ gate = "dirty" => (formFound = "unasked" /\ submits = 0)

C13_Witness ==
    /\ fpc = "returned" /\ submit /\ gate = "clean" /\ submits = 1
    /\ Len(fields) >= 1

\* C14: fields are processed in the given order; a field whose element is
\* absent appends exactly one 'Field not found' error and the loop goes on.
\* For three fields of which only the second is missing (the others found and
\* filled without failure, no validator error): exactly one error,
\* success = false, and the third field is dispatched after the first.
C14_MissingField ==
    /\ [](/\ Len(seen) <= Len(fields)
          /\ (/\ fpc = "returned" /\ located = "found" /\ ~fThrew /\ ~ValidatorAdded
              /\ Len(fields) = 3
              /\ Len(seen) >= 2 /\ seen[1] = "found" /\ seen[2] = "null"
              /\ Len(seen) >= 3 => seen[3] = "found")
                => /\ Len(seen) = 3
                   /\ errors = <<NotFound(2)>>
                   /\ success = "false"
                   /\ [j \in DOMAIN acted |-> acted[j][1]] = <<1, 3>>
                   /\ submits = 0)
    /\ [][seen' = Append(seen, "null")
            => /\ errors' = Append(errors, NotFound(idx))
               /\ Len(seen') = idx
               /\ idx < Len(fields) => (fpc' = "resolve" /\ idx' = idx + 1)]_vars

C14_Witness ==
    /\ fpc = "returned" /\ Len(fields) = 3 /\ ~fThrew
    /\ seen = <<"found", "null", "found">>
    /\ errors = <<NotFound(2)>>
    /\ Len(acted) = 2

\* C15: when the form selector does not appear within the timeout the call
\* returns success = false with exactly one error; no field is resolved or
\* filled, no validator is run, no submit action is performed.
C15_LocateFailure ==
    (fpc # "idle" /\ located = "timeout")
        => /\ fpc = "returned"
           /\ success = "false"
           /\ errors = <<FormError>>
           /\ seen = <<>> /\ acted = <<>>
           /\ validations = 0
           /\ formFound = "unasked" /\ submits = 0

C15_Witness ==
    /\ fpc = "returned" /\ located = "timeout"
    /\ Len(fields) >= 1 /\ submit /\ validate

\* C16: on every return path success is true if and only if the returned
\* error list is empty.
C16_SuccessIffNoErrors ==
    fpc = "returned" => (success = "true" <=> errors = <<>>)

C16_Witness ==
    /\ fpc = "returned" /\ success = "false" /\ fThrew
    /\ errors = <<FormError>>

\* C17: success = true means that submit was not requested, or that the
\* submit action was performed in this call and its navigation wait completed.
C17_SuccessImpliesSubmitted ==
    (fpc = "returned" /\ success = "true")
        => (~submit \/ (submits = 1 /\ navigated))

C17_Witness ==
    /\ fpc = "returned" /\ success = "true" /\ submit
    /\ submits = 1 /\ navigated /\ Len(fields) >= 1

\* C18: handleForm never throws: whatever page call fails, the call ends by
\* returning {success, errors}, and the error list only ever grows at its end,
\* so the errors recorded before a failure are still in the result, in order.
C18_NeverThrows ==
    /\ [](/\ fpc \in FormPcs
          /\ fpc = "returned" => success \in {"true", "false"})
    /\ [][IsPrefix(errors, errors')]_vars

C18_Witness ==
    /\ fpc = "returned" /\ fThrew /\ validations = 1
    /\ Len(errors) >= 2
    /\ errors[1] = NotFound(1)
    /\ errors[Len(errors)] = FormError

\* C30: for each field whose element is resolved there is at most one driver
\* action, chosen with the priority select tag, checkbox/radio type, file
\* type, text: select chooses the option, file uploads, text types, and a
\* checkbox or radio is clicked iff the value is truthy; a falsy value gives
\* no action and no error.
C30_DispatchByKind ==
    /\ [](\A j \in DOMAIN acted :
            /\ acted[j][1] \in DOMAIN seen /\ seen[acted[j][1]] = "found"
            /\ \A k \in DOMAIN acted : j < k => acted[j][1] < acted[k][1])
    /\ [][acted' # acted
            => /\ fpc = "tagName"
               /\ Len(acted') = Len(acted) + 1
               /\ SubSeq(acted', 1, Len(acted)) = acted
               /\ acted'[Len(acted')][1] = idx
               /\ acted'[Len(acted')][2] =
                    CASE tag' = "select" -> "select"
                      [] tag' # "select" /\ type \in {"checkbox", "radio"}
                            -> IF fields[idx] THEN "click" ELSE "skip"
                      [] tag' # "select" /\ type = "file" -> "uploadFile"
                      [] OTHER -> "type"
               /\ IF acted'[Len(acted')][2] = "skip"
                    THEN errors' = errors /\ fpc' # "fill"
                    ELSE fpc' = "fill"]_vars

C30_Witness ==
    /\ fpc = "returned" /\ Len(fields) = 3 /\ errors = <<>>
    /\ acted = <<<<1, "select">>, <<2, "skip">>, <<3, "click">>>>

\* The entries the fill loop owes for fields 1..n: one per field that was
\* missing or whose processing threw, in field order.
RECURSIVE FieldErrorsUpTo(_)
FieldErrorsUpTo(n) ==
    IF n = 0 THEN <<>>
    ELSE FieldErrorsUpTo(n - 1) \o
           (IF n \in failed THEN <<FillError(n)>>
            ELSE IF n <= Len(seen) /\ seen[n] = "null" THEN <<NotFound(n)>>
            ELSE <<>>)

IsFieldError(e) == e[1] \in {"Field not found", "Error filling"}

\* C31: an exception while resolving, classifying or filling a field appends
\* exactly one error naming that field, and the later fields are still
\* processed; after the fill loop the error list holds, in field order,
\* exactly one entry per field that was missing or failed.
C31_FieldErrors ==
    /\ [](/\ SelectSeq(errors, IsFieldError) = FieldErrorsUpTo(Len(fields))
          /\ IsPrefix(FieldErrorsUpTo(Len(fields)), errors)
          /\ fpc \in {"resolve", "type", "tagName", "fill"}
                => errors = FieldErrorsUpTo(Len(fields))
          /\ gate # "unreached" => Len(seen) = Len(fields))
    /\ [][failed' # failed
            => /\ fpc \in {"resolve", "type", "tagName", "fill"}
               /\ idx \notin failed /\ failed' = failed \cup {idx}
               /\ errors' = Append(errors, FillError(idx))
               /\ IF idx < Len(fields)
                    THEN fpc' = "resolve" /\ idx' = idx + 1
                    ELSE fpc' \in {"validate", "lookup", "returned"}]_vars

C31_Witness ==
    /\ fpc = "returned" /\ Len(fields) = 3
    /\ seen = <<"threw", "null", "found">> /\ failed = {1, 3}
    /\ errors = <<FillError(1), NotFound(2), FillError(3)>>

\* What a validator step may do to the error list, by what the validator said.
ValidatorStep ==
    /\ fpc = "validate"
    /\ validations' = validations + 1
    /\ Len(seen) = Len(fields)
    /\ errors = FieldErrorsUpTo(Len(fields))
    /\ submits = 0 /\ formFound = "unasked"
    /\ IF validSaid' = "valid" THEN errors' = errors
       ELSE IF validSaid' = "invalid"
         THEN /\ IsPrefix(errors, errors')
              /\ \A i \in (Len(errors) + 1)..Len(errors') :
                    errors'[i] = ValidatorError(i - Len(errors))
       ELSE errors' = Append(errors, FormError)

\* C32: the custom validator, when supplied, runs exactly once, after all
\* fields have been processed and before any submit; falsy valid appends all
\* of its errors after the field errors, truthy valid leaves the list as it is.
C32_ValidatorOnce ==
    /\ [](/\ validations <= 1
          /\ ~validate => validations = 0
          /\ (fpc = "returned" /\ validate) => validations = 1
          /\ (submits >= 1 /\ validate) => validations = 1)
    /\ [][validations' # validations => ValidatorStep]_vars

\* C32 as amended: the validator, when supplied, runs exactly once if the form
\* was located and not at all if it was not; the rest as above.
C32_ValidatorOnceIfLocated ==
    /\ [](/\ validations <= 1
          /\ ~validate => validations = 0
          /\ (fpc = "returned" /\ validate)
                => validations = IF located = "found" THEN 1 ELSE 0
          /\ (submits >= 1 /\ validate) => validations = 1)
    /\ [][validations' # validations => ValidatorStep]_vars

C32_Witness ==
    /\ fpc = "returned" /\ validate /\ validations = 1 /\ validSaid = "invalid"
    /\ Len(fields) = 2
    /\ errors = <<NotFound(1), FillError(2), ValidatorError(1), ValidatorError(2)>>

\* C33: when the submit action was performed and the navigation wait that
\* follows times out, an error is appended and the call returns
\* success = false; the submit action has happened exactly once and is not
\* retried.
C33_NavigationTimeout ==
    /\ [](/\ submits <= 1
          /\ navWait = "timeout"
                => /\ fpc = "returned" /\ success = "false"
                   /\ submits = 1 /\ formFound = "found"
                   /\ errors = <<FormError>>)
    /\ [][navWait' = "timeout"
            => /\ fpc = "navigation" /\ submits = 1
               /\ errors' = Append(errors, FormError)
               /\ UNCHANGED submits]_vars

C33_Witness ==
    /\ fpc = "returned" /\ navWait = "timeout" /\ submits = 1
    /\ Len(fields) >= 1 /\ validations = 1

\* ------------------------------------ claims: handleDynamicFormFields

\* C19: handleDynamicFormFields never throws; it returns an empty array if
\* the trigger click fails or no matching element appears in time, and
\* otherwise the elements matching fieldSelector, queried after the click and
\* the wait succeeded.
C19_DynamicFields ==
    /\ dpc \in {"idle", "click", "wait", "query", "returned"}
    /\ dpc = "returned"
        => IF dynFailed \in {"click", "waitForSelector"}
             THEN dynResult = {}
             ELSE dynResult = matching /\ dynCalls = <<"click", "waitForSelector", "$$">>

\* C19 as amended: handleDynamicFormFields never throws; it returns an empty
\* array if the click, the wait or the final query fails (having made no
\* later page call), and otherwise the elements the query found, the calls
\* having been made in the order click, wait, query.
C19_DynamicFieldsOrEmpty ==
    /\ dpc \in {"idle", "click", "wait", "query", "returned"}
    /\ IsPrefix(dynCalls, <<"click", "waitForSelector", "$$">>)
    /\ dpc = "returned"
        => IF dynFailed # "none"
             THEN dynResult = {} /\ dynCalls[Len(dynCalls)] = dynFailed
             ELSE dynResult = matching /\ dynCalls = <<"click", "waitForSelector", "$$">>

C19_Witness ==
    /\ dpc = "returned" /\ dynFailed = "none"
    /\ dynResult = DynElements

\* --------------------------------------------------- claims: validateForm

\* The part of C34 that does not depend on the form being there.
ValidateFormOutcome ==
    /\ vpc \in {"idle", "report", "settle", "collect", "returned"}
    /\ IsPrefix(vCalls, <<"reportValidity", "waitForTimeout", "collect">>)
    /\ vpc = "returned"
        => /\ valid \in {"true", "false"}
           /\ valid = "true" <=> vErrors = <<>>
           /\ IF vFailed # "none"
                THEN /\ valid = "false" /\ Len(vErrors) = 1
                     /\ vCalls[Len(vCalls)] = vFailed
                ELSE /\ vCalls = <<"reportValidity", "waitForTimeout", "collect">>
                     /\ Len(vErrors) = Len(errorElements)
                     /\ \A i \in DOMAIN vErrors :
                          /\ vErrors[i] = Trim(errorElements[i])
                          /\ vErrors[i] = <<>> \/ vErrors[i] = <<"x">>

\* C34: validateForm forces native validation first, then waits the settle
\* delay, then collects the error texts; on every return path valid is true
\* iff the returned errors list is empty; a page call that throws gives
\* valid = false with exactly one error, not an exception.
C34_ValidateForm ==
    /\ ValidateFormOutcome
    /\ "waitForTimeout" \in {vCalls[i] : i \in DOMAIN vCalls} => reported

\* C34 as amended: the first page call calls reportValidity on the form when
\* formSelector matches one and does nothing when it matches none; then the
\* settle delay, then the collection; the rest as above.
C34_ValidateFormIfPresent ==
    /\ ValidateFormOutcome
    /\ reported => formExists
    /\ "waitForTimeout" \in {vCalls[i] : i \in DOMAIN vCalls}
        => (reported <=> formExists)

C34_Witness ==
    /\ vpc = "returned" /\ vFailed = "none" /\ reported
    /\ errorElements = <<<<" ">>, <<" ", "x", " ">>>>
    /\ vErrors = <<<<>>, <<"x">>>> /\ valid = "false"

\* ------------------------------------------- claims: handleInfiniteScroll

\* C35: handleInfiniteScroll makes at most maxScrolls productive scroll steps
\* and stops at the first step whose height is unchanged, without retry; with
\* loadMoreSelector configured the button is looked up after each scroll's
\* delay and, when found, clicked and the delay waited again; a failure of
\* the lookup or the click is swallowed and the loop goes on.
C35_InfiniteScroll ==
    /\ [](/\ iScrollCount <= iMaxScrolls
          /\ clicks <= iMaxScrolls
          /\ ~loadMoreSelector => (clicks = 0 /\ ~swallowed))
    /\ [][/\ (ipc = "i_new" /\ ipc' # "i_rejected")
               => IF page'.height = previousHeight
                    THEN ipc' = "i_done" /\ iScrollCount' = iScrollCount
                    ELSE ipc' = "i_loop" /\ iScrollCount' = iScrollCount + 1
          /\ ipc = "i_done" => UNCHANGED infVars
          /\ (ipc = "i_wait" /\ ipc' # "i_rejected")
               => ipc' = IF loadMoreSelector THEN "i_lookup" ELSE "i_new"
          /\ ipc = "i_lookup" => ipc' \in {"i_click", "i_new"}
          /\ ipc = "i_click" => (clicks' = clicks + 1 /\ ipc' \in {"i_wait2", "i_new"})
          /\ ipc = "i_wait2" => ipc' = "i_new"
          /\ (ipc' = "i_wait2" /\ ipc # "i_wait2")
               => (ipc = "i_click" /\ swallowed' = swallowed)
          /\ (ipc' = "i_click" /\ ipc # "i_click") => ipc = "i_lookup"
          /\ (ipc' = "i_lookup" /\ ipc # "i_lookup") => ipc = "i_wait"
          /\ clicks' # clicks => ipc = "i_click"
          /\ (swallowed' /\ ~swallowed)
               => (ipc \in {"i_lookup", "i_click", "i_wait2"} /\ ipc' = "i_new")]_vars

C35_Witness ==
    /\ ipc = "i_done" /\ loadMoreSelector /\ swallowed
    /\ iMaxScrolls = MaxScrollsBound /\ iScrollCount = iMaxScrolls
    /\ clicks = 1

====
